---------------------------- MODULE Spec2Model ----------------------------
(***************************************************************************)
(* Gas Fee Optimizer (src/src/gas-optimizer.js).                           *)
(*                                                                         *)
(* One process run is main(): capture a timestamp, visit the chains of     *)
(* CHAINS in order (missing RPC variable -> error reading, otherwise       *)
(* fetchGasData), rank with chooseBestChain, build the report, write it    *)
(* to reports/, optionally POST it to a webhook, print it.  The steps of   *)
(* the model are the stretches of main() between two awaits.  The RPC      *)
(* endpoints, the webhook receiver, the clock and the file system's        *)
(* refusal to write are the environment: their answers are drawn with \E.  *)
(*                                                                         *)
(* Amounts: a BigNumber of wei is a natural number; the float produced by  *)
(* parseFloat(formatUnits(x, 'gwei')) is the decimal [int, frac] with nine *)
(* fractional digits that formatUnits prints.                              *)
(***************************************************************************)
EXTENDS Integers, Sequences, FiniteSets, TLC

VARIABLES
    pc,             \* position of the process: idle, loop, posting, done, crashed
                    \* (rank_input/ranked, fee_input/fee_done: the function harnesses)
    run,            \* number of process runs started so far
    env,            \* process.env of the current run
    timestamp,      \* main: const timestamp (ISO string, as a sequence of characters)
    reportsDir,     \* whether REPORTS_DIR exists on disk
    idx,            \* position of the for-loop over Object.entries(CHAINS)
    results,        \* main: const results (insertion-ordered object)
    providers,      \* chain keys for which getProvider was called in this run
    requests,       \* per chain: the JSON-RPC methods issued in this run, in order
    netClass,       \* per chain: what the endpoint did in this run (history)
    best_chain,     \* main: const best_chain
    recommendation, \* main: const recommendation
    report,         \* main: const report
    files,          \* reports/ on disk: file name -> content
    writes,         \* number of writeFileSync calls completed in this run
    posts,          \* webhook POST attempts of this run: <<payload, delivered>>
    console,        \* console output of this run
    exitCode,       \* exit statuses of this run's process: <<>> while it runs, then <<status>>
    feeRes,         \* harness input: an eth_feeHistory response
    feeOut          \* harness output: the priority fee estimate

vars == <<pc, run, env, timestamp, reportsDir, idx, results, providers, requests,
          netClass, best_chain, recommendation, report, files, writes, posts,
          console, exitCode, feeRes, feeOut>>

---------------------------------------------------------------------------
(* Bounds *)

\* gas prices drawn in the pipeline: 0, WeiStep, ..., MaxGas * WeiStep wei
MaxGas == 1
\* reward values drawn in the pipeline: 0, RewardStep, ..., MaxReward * RewardStep wei
MaxReward == 1
\* longest reward array an endpoint returns in the pipeline
MaxBlocks == 1
\* granularity of the gas prices drawn, in wei (0.6 gwei)
WeiStep == 600000000
\* granularity of the rewards drawn, in wei (0.1 gwei)
RewardStep == 100000000
\* amounts drawn for the ranking harness: 0 .. MaxRankVal * WeiStep wei
MaxRankVal == 2
\* reward values and array length drawn for the fee-history harness
MaxFeeReward == 2
MaxFeeBlocks == 5
\* clock readings: 0, TickMs, ..., MaxTick * TickMs milliseconds after the epoch below
MaxTick == 2
TickMs == 500
\* process runs in the multi-run specification
MaxRuns == 2

---------------------------------------------------------------------------
(* JavaScript values *)

\* null, where the other values are records or sequences
null == [null |-> TRUE]
\* null, where the other values are strings (best_chain)
nullKey == "<null>"
\* an environment variable that is not set
undefined == "<undefined>"
\* 'gwei' = 9 decimals
GweiDecimals == 1000000000

\* Object.entries order of an object literal / of an object built by assignment
KeySet(obj) == {obj[i].key : i \in 1..Len(obj)}
Get(obj, key) == (CHOOSE i \in 1..Len(obj) : obj[i].key = key)
ValueOf(obj, key) == obj[Get(obj, key)].val

\* obj[key] = val
ObjSet(obj, key, val) ==
    IF key \in KeySet(obj)
    THEN [i \in 1..Len(obj) |-> IF obj[i].key = key THEN [key |-> key, val |-> val] ELSE obj[i]]
    ELSE Append(obj, [key |-> key, val |-> val])

CHAINS == <<
    [key |-> "base",     val |-> [name |-> "Base",     rpcEnv |-> "RPC_BASE"]],
    [key |-> "optimism", val |-> [name |-> "Optimism", rpcEnv |-> "RPC_OPTIMISM"]],
    [key |-> "arbitrum", val |-> [name |-> "Arbitrum", rpcEnv |-> "RPC_ARBITRUM"]] >>

ChainIds == KeySet(CHAINS)

\* parseFloat(ethers.utils.formatUnits(x, 'gwei'))
formatGwei(wei) == [int |-> wei \div GweiDecimals, frac |-> wei % GweiDecimals]

\* a + b on gwei amounts
GweiAdd(a, b) ==
    [int  |-> a.int + b.int + ((a.frac + b.frac) \div GweiDecimals),
     frac |-> (a.frac + b.frac) % GweiDecimals]

\* a < b on gwei amounts
GweiLess(a, b) == a.int < b.int \/ (a.int = b.int /\ a.frac < b.frac)

---------------------------------------------------------------------------
(* What an RPC endpoint can answer *)

\* String(err) of the error a provider call rejects with
RpcError == "Error: could not detect network"

Throw == [throw |-> RpcError]
Return(v) == [value |-> v]
Throws(r) == "throw" \in DOMAIN r

Amounts(max) == {k * WeiStep : k \in 0..max}

\* one element of res.reward: null, an empty array, or [hex] (as the number the hex
\* string encodes)
RewardEntries(maxReward) ==
    {null, [array |-> <<>>]} \cup {[array |-> <<k * RewardStep>>] : k \in 0..maxReward}

RECURSIVE SeqsUpTo(_, _)
SeqsUpTo(S, n) ==
    IF n = 0 THEN {<<>>}
    ELSE LET shorter == SeqsUpTo(S, n - 1)
         IN  shorter \cup {Append(q, e) : q \in {r \in shorter : Len(r) = n - 1}, e \in S}

\* res of provider.send('eth_feeHistory', ...): null, an object without reward,
\* or an object with a reward array
FeeResponses(maxBlocks, maxReward) ==
    {null, [oldestBlock |-> 0]}
        \cup {[reward |-> q] : q \in SeqsUpTo(RewardEntries(maxReward), maxBlocks)}

\* the answers of one endpoint to getGasPrice, getBlockNumber and eth_feeHistory
RpcOutcomes(maxGas, maxBlocks, maxReward) ==
    [gasPrice    : {Throw} \cup {Return(w) : w \in Amounts(maxGas)},
     blockNumber : {Throw, Return(0)},
     feeHistory  : {Throw} \cup {Return(r) : r \in FeeResponses(maxBlocks, maxReward)}]

\* whether a reward entry carries a value: r && r[0]
Usable(r) == r # null /\ Len(r.array) > 0

\* history: what the endpoint did for the calls fetchGasData makes
OutcomeClass(o) ==
    IF Throws(o.gasPrice) THEN "gas_failed"
    ELSE IF Throws(o.blockNumber) THEN "block_number_failed"
    ELSE IF Throws(o.feeHistory) THEN "fee_history_failed"
    ELSE IF \/ o.feeHistory.value = null
            \/ "reward" \notin DOMAIN o.feeHistory.value
            \/ \A i \in 1..Len(o.feeHistory.value.reward) :
                    ~Usable(o.feeHistory.value.reward[i])
         THEN "fee_history_unusable"
    ELSE "fee_ok"

---------------------------------------------------------------------------
(* fetchGasData *)

RECURSIVE SumSeq(_)
SumSeq(q) == IF q = <<>> THEN 0 ELSE Head(q) + SumSeq(Tail(q))

\* res.reward.map(r => r && r[0] ? BigNumber.from(r[0]) : null).filter(Boolean)
usableRewards(reward) ==
    LET F[i \in 0..Len(reward)] ==
            IF i = 0 THEN <<>>
            ELSE IF reward[i] # null /\ Len(reward[i].array) > 0
                 THEN Append(F[i - 1], reward[i].array[1])
                 ELSE F[i - 1]
    IN  F[Len(reward)]

\* const blockCount = 5
blockCount == 5

priorityFeeOverBlockCount(res) ==
    IF res # null /\ "reward" \in DOMAIN res /\ Len(res.reward) > 0
    THEN LET rewards == usableRewards(res.reward)
         IN  IF Len(rewards) > 0
             THEN formatGwei(SumSeq(rewards) \div blockCount)
             ELSE null
    ELSE null

\* the value of priorityFeeGwei after the if (res && res.reward && res.reward.length) block
priorityFee(res) ==
    IF res # null /\ "reward" \in DOMAIN res /\ Len(res.reward) > 0
    THEN LET rewards == usableRewards(res.reward)
         IN  IF Len(rewards) > 0
             THEN formatGwei(SumSeq(rewards) \div Len(rewards))
             ELSE null
    ELSE null

\* mutants of fetchGasData
fetchGasDataNoInnerCatch(o) ==
    IF Throws(o.gasPrice)
    THEN [reading |-> [error |-> o.gasPrice.throw], calls |-> <<"eth_gasPrice">>]
    ELSE IF Throws(o.blockNumber)
    THEN [reading |-> [error |-> o.blockNumber.throw],
          calls |-> <<"eth_gasPrice", "eth_blockNumber">>]
    ELSE IF Throws(o.feeHistory)
    THEN [reading |-> [error |-> o.feeHistory.throw],
          calls |-> <<"eth_gasPrice", "eth_blockNumber", "eth_feeHistory">>]
    ELSE [reading |-> [gas_price_gwei |-> formatGwei(o.gasPrice.value),
                       priority_fee_gwei |-> priorityFee(o.feeHistory.value)],
          calls |-> <<"eth_gasPrice", "eth_blockNumber", "eth_feeHistory">>]

fetchGasDataErrorWithFields(o) ==
    IF Throws(o.gasPrice)
    THEN [reading |-> [gas_price_gwei |-> null, priority_fee_gwei |-> null,
                       error |-> o.gasPrice.throw],
          calls |-> <<"eth_gasPrice">>]
    ELSE IF Throws(o.blockNumber)
    THEN [reading |-> [gas_price_gwei |-> formatGwei(o.gasPrice.value),
                       priority_fee_gwei |-> null],
          calls |-> <<"eth_gasPrice", "eth_blockNumber">>]
    ELSE [reading |-> [gas_price_gwei |-> formatGwei(o.gasPrice.value),
                       priority_fee_gwei |->
                           IF Throws(o.feeHistory) THEN null
                           ELSE priorityFee(o.feeHistory.value)],
          calls |-> <<"eth_gasPrice", "eth_blockNumber", "eth_feeHistory">>]

fetchGasDataLatestTag(o) ==
    IF Throws(o.gasPrice)
    THEN [reading |-> [error |-> o.gasPrice.throw], calls |-> <<"eth_gasPrice">>]
    ELSE [reading |-> [gas_price_gwei |-> formatGwei(o.gasPrice.value),
                       priority_fee_gwei |->
                           IF Throws(o.feeHistory) THEN null
                           ELSE priorityFee(o.feeHistory.value)],
          calls |-> <<"eth_gasPrice", "eth_feeHistory">>]

\* fetchGasData(provider), the provider answering as o: the reading returned and
\* the JSON-RPC methods issued, in order
fetchGasData(o) ==
    IF Throws(o.gasPrice)
    THEN [reading |-> [error |-> o.gasPrice.throw], calls |-> <<"eth_gasPrice">>]
    ELSE IF Throws(o.blockNumber)
    THEN [reading |-> [gas_price_gwei |-> formatGwei(o.gasPrice.value),
                       priority_fee_gwei |-> null],
          calls |-> <<"eth_gasPrice", "eth_blockNumber">>]
    ELSE [reading |-> [gas_price_gwei |-> formatGwei(o.gasPrice.value),
                       priority_fee_gwei |->
                           IF Throws(o.feeHistory) THEN null
                           ELSE priorityFee(o.feeHistory.value)],
          calls |-> <<"eth_gasPrice", "eth_blockNumber", "eth_feeHistory">>]

---------------------------------------------------------------------------
(* chooseBestChain *)

Zero == [int |-> 0, frac |-> 0]

betterOrEqual(best, total) == best = null \/ ~GweiLess(best.score, total)

\* !best || total < best.score
better(best, total) == best = null \/ GweiLess(total, best.score)

\* the for-loop of chooseBestChain from entry i on, best being the value of `best`
RECURSIVE chooseLoop(_, _, _)
chooseLoop(chains, i, best) ==
    IF i > Len(chains) THEN best
    ELSE LET key == chains[i].key
             val == chains[i].val
         IN  IF "error" \in DOMAIN val /\ val.error # ""
             THEN chooseLoop(chains, i + 1, best)
             ELSE LET pf == IF val.priority_fee_gwei = null THEN Zero
                            ELSE val.priority_fee_gwei
                      total == GweiAdd(val.gas_price_gwei, pf)
                  IN  IF better(best, total)
                      THEN chooseLoop(chains, i + 1, [chain |-> key, score |-> total])
                      ELSE chooseLoop(chains, i + 1, best)

chooseBestChain(chains) ==
    LET best == chooseLoop(chains, 1, null)
    IN  IF best # null THEN best.chain ELSE nullKey

---------------------------------------------------------------------------
(* main: the timestamp and the file name *)

Digit(n) == <<"0", "1", "2", "3", "4", "5", "6", "7", "8", "9">>[n + 1]

\* new Date().toISOString(), the clock reading ms milliseconds after
\* 2025-09-28T12:00:00.000Z (ms < 60000)
toISOString(ms) ==
    <<"2", "0", "2", "5", "-", "0", "9", "-", "2", "8", "T", "1", "2", ":", "0", "0", ":">>
        \o <<Digit((ms \div 10000) % 10), Digit((ms \div 1000) % 10), ".">>
        \o <<Digit((ms \div 100) % 10), Digit((ms \div 10) % 10), Digit(ms % 10), "Z">>

ClockReadings == {k * TickMs : k \in 0..MaxTick}

replaceColonsAndDots(str) ==
    [i \in 1..Len(str) |-> IF str[i] \in {":", "."} THEN "-" ELSE str[i]]

reportFilenameToTheSecond(ts) ==
    <<"report-">> \o replaceColonsAndDots(SubSeq(ts, 1, 19)) \o <<".json">>

\* path.join(REPORTS_DIR, 'report-' + timestamp.replace(/[:.]/g,'-') + '.json'),
\* as the name inside REPORTS_DIR
reportFilename(ts) == <<"report-">> \o replaceColonsAndDots(ts) \o <<".json">>

\* fs.writeFileSync(filename, content) on the directory dir
writeFileSync(dir, name, content) ==
    {f \in dir : f.name # name} \cup {[name |-> name, content |-> content]}

---------------------------------------------------------------------------
(* main: the loop over the chains *)

EnvNames == {CHAINS[i].val.rpcEnv : i \in 1..Len(CHAINS)} \cup {"WEBHOOK_URL"}

\* a variable is unset, set to the empty string, or set to a URL
EnvValues == {undefined, "", "https://rpc"}

\* !rpc, !webhook
Falsy(v) == v \in {undefined, ""}

\* mutants of loopBody
loopBodySkipsMissing(st, entry, e, o) ==
    IF Falsy(e[entry.val.rpcEnv])
    THEN st
    ELSE LET got == fetchGasData(o)
         IN  [results   |-> ObjSet(st.results, entry.key, got.reading),
              providers |-> st.providers \cup {entry.key},
              requests  |-> [st.requests EXCEPT ![entry.key] = got.calls]]

loopBodyProviderFirst(st, entry, e, o) ==
    IF Falsy(e[entry.val.rpcEnv])
    THEN [results   |-> ObjSet(st.results, entry.key,
                               [error |-> "Missing env " \o entry.val.rpcEnv]),
          providers |-> st.providers \cup {entry.key},
          requests  |-> st.requests]
    ELSE LET got == fetchGasData(o)
         IN  [results   |-> ObjSet(st.results, entry.key, got.reading),
              providers |-> st.providers \cup {entry.key},
              requests  |-> [st.requests EXCEPT ![entry.key] = got.calls]]

\* one iteration of the for-loop of main, for the entry [key, meta] of CHAINS, the
\* environment e and an endpoint answering as o; st holds results, the providers
\* created and the requests issued
loopBody(st, entry, e, o) ==
    IF Falsy(e[entry.val.rpcEnv])
    THEN [results   |-> ObjSet(st.results, entry.key,
                               [error |-> "Missing env " \o entry.val.rpcEnv]),
          providers |-> st.providers,
          requests  |-> st.requests]
    ELSE LET got == fetchGasData(o)
         IN  [results   |-> ObjSet(st.results, entry.key, got.reading),
              providers |-> st.providers \cup {entry.key},
              requests  |-> [st.requests EXCEPT ![entry.key] = got.calls]]

---------------------------------------------------------------------------
(* main: the report *)

\* best_chain ? `Send your transactions on ${best_chain} now for lowest fees.`
\*            : 'No recommendation (insufficient data).'
recommendationText(best) ==
    IF best # nullKey
    THEN "Send your transactions on " \o best \o " now for lowest fees."
    ELSE "No recommendation (insufficient data)."

buildReport(ts, chains) ==
    LET best == chooseBestChain(chains)
    IN  [timestamp      |-> ts,
         best_chain     |-> best,
         recommendation |-> recommendationText(best),
         chains         |-> chains]

\* mutant of afterPost: the POST outside any try/catch
afterPostUncaught(delivered) ==
    IF delivered
    THEN [console |-> <<[level |-> "log", text |-> "Posted to webhook"],
                        [level |-> "log", text |-> "report"]>>,
          pc |-> "done", exitCode |-> <<0>>]
    ELSE [console |-> <<[level |-> "error", text |-> "err"]>>,
          pc |-> "crashed", exitCode |-> <<1>>]

\* main from the return of axios.post to its end; the process then exits
afterPost(delivered) ==
    IF delivered
    THEN [console |-> <<[level |-> "log", text |-> "Posted to webhook"],
                        [level |-> "log", text |-> "report"]>>,
          pc |-> "done", exitCode |-> <<0>>]
    ELSE [console |-> <<[level |-> "warn", text |-> "Webhook post failed:"],
                        [level |-> "log", text |-> "report"]>>,
          pc |-> "done", exitCode |-> <<0>>]

---------------------------------------------------------------------------
(* The steps *)

NoRequests == [c \in ChainIds |-> <<>>]
NoClass == [c \in ChainIds |-> "none"]
NoEnv == [n \in EnvNames |-> undefined]

InitBase ==
    /\ run = 0
    /\ env = NoEnv
    /\ timestamp = <<>>
    /\ reportsDir = FALSE
    /\ idx = 1
    /\ providers = {}
    /\ requests = NoRequests
    /\ netClass = NoClass
    /\ best_chain = nullKey
    /\ recommendation = ""
    /\ report = null
    /\ files = {}
    /\ writes = 0
    /\ posts = <<>>
    /\ console = <<>>
    /\ exitCode = <<>>

Init ==
    /\ InitBase
    /\ pc = "idle"
    /\ results = <<>>
    /\ feeRes = null
    /\ feeOut = null

\* A process is started: the module is loaded (REPORTS_DIR is created if absent) and
\* main runs to its first await.
Start(clock, envs, maxRuns) ==
    /\ pc \in {"idle", "done", "crashed"}
    /\ run < maxRuns
    /\ \E ms \in clock, e \in envs :
        /\ timestamp' = toISOString(ms)
        /\ env' = e
    /\ run' = run + 1
    /\ reportsDir' = TRUE
    /\ results' = <<>>
    /\ idx' = 1
    /\ providers' = {}
    /\ requests' = NoRequests
    /\ netClass' = NoClass
    /\ best_chain' = nullKey
    /\ recommendation' = ""
    /\ report' = null
    /\ writes' = 0
    /\ posts' = <<>>
    /\ console' = <<>>
    /\ exitCode' = <<>>
    /\ pc' = "loop"
    /\ UNCHANGED <<files, feeRes, feeOut>>

\* One iteration of the for-loop, up to and including its awaits.
LoopStep(outcomes) ==
    /\ pc = "loop"
    /\ idx <= Len(CHAINS)
    /\ \E o \in outcomes :
        LET entry == CHAINS[idx]
            next == loopBody([results |-> results, providers |-> providers,
                              requests |-> requests], entry, env, o)
        IN  /\ results' = next.results
            /\ providers' = next.providers
            /\ requests' = next.requests
            /\ netClass' = IF Falsy(env[entry.val.rpcEnv]) THEN netClass
                           ELSE [netClass EXCEPT ![entry.key] = OutcomeClass(o)]
    /\ idx' = idx + 1
    /\ UNCHANGED <<pc, run, env, timestamp, reportsDir, best_chain, recommendation,
                   report, files, writes, posts, console, exitCode, feeRes, feeOut>>

\* After the loop: rank, build the report, write the file; without a webhook, print
\* the report and return.
Persist ==
    /\ pc = "loop"
    /\ idx > Len(CHAINS)
    /\ LET rep == buildReport(timestamp, results)
           wrote == [level |-> "log", text |-> "Wrote"]
       IN  /\ best_chain' = rep.best_chain
           /\ recommendation' = rep.recommendation
           /\ report' = rep
           /\ files' = writeFileSync(files, reportFilename(timestamp), rep)
           /\ writes' = writes + 1
           /\ IF Falsy(env["WEBHOOK_URL"])
              THEN /\ console' = console \o <<wrote, [level |-> "log", text |-> "report"]>>
                   /\ pc' = "done"
                   /\ exitCode' = <<0>>
              ELSE /\ console' = Append(console, wrote)
                   /\ pc' = "posting"
                   /\ exitCode' = exitCode
    /\ UNCHANGED <<run, env, timestamp, reportsDir, idx, results, providers, requests,
                   netClass, posts, feeRes, feeOut>>

\* After the loop, writeFileSync throws: main rejects, the entry point logs the error
\* and exits with status 1.
PersistFails ==
    /\ pc = "loop"
    /\ idx > Len(CHAINS)
    /\ LET rep == buildReport(timestamp, results)
       IN  /\ best_chain' = rep.best_chain
           /\ recommendation' = rep.recommendation
           /\ report' = rep
    /\ console' = Append(console, [level |-> "error", text |-> "err"])
    /\ pc' = "crashed"
    /\ exitCode' = <<1>>
    /\ UNCHANGED <<run, env, timestamp, reportsDir, idx, results, providers, requests,
                   netClass, files, writes, posts, feeRes, feeOut>>

\* The webhook POST returns or throws; main prints the report and returns.
Notify ==
    /\ pc = "posting"
    /\ \E delivered \in BOOLEAN :
        LET after == afterPost(delivered)
        IN  /\ posts' = Append(posts, [payload |-> report, delivered |-> delivered])
            /\ console' = console \o after.console
            /\ pc' = after.pc
            /\ exitCode' = after.exitCode
    /\ UNCHANGED <<run, env, timestamp, reportsDir, idx, results, providers, requests,
                   netClass, best_chain, recommendation, report, files, writes,
                   feeRes, feeOut>>

AllEnvs == [EnvNames -> EnvValues]

\* One run, every environment and every endpoint behaviour within the bounds.
Next ==
    \/ Start({0}, AllEnvs, 1)
    \/ LoopStep(RpcOutcomes(MaxGas, MaxBlocks, MaxReward))
    \/ Persist
    \/ PersistFails
    \/ Notify

Spec == Init /\ [][Next]_vars

---------------------------------------------------------------------------
(* Several runs against the same reports/ directory *)

\* environments of the scheduled runs: only RPC_BASE and WEBHOOK_URL vary
ScheduledEnvs ==
    {e \in [EnvNames -> {undefined, "https://rpc"}] :
        e["RPC_OPTIMISM"] = undefined /\ e["RPC_ARBITRUM"] = undefined}

\* endpoints of the scheduled runs: down, or answering eth_gasPrice only
ScheduledOutcomes ==
    [gasPrice : {Throw, Return(WeiStep)}, blockNumber : {Throw}, feeHistory : {Throw}]

NextRuns ==
    \/ Start(ClockReadings, ScheduledEnvs, MaxRuns)
    \/ LoopStep(ScheduledOutcomes)
    \/ Persist
    \/ PersistFails
    \/ Notify

SpecRuns == Init /\ [][NextRuns]_vars

---------------------------------------------------------------------------
(* chooseBestChain on every readings map within the bounds *)

RankAmounts == {formatGwei(w) : w \in Amounts(MaxRankVal)}

RankReadings(entry) ==
    {[error |-> "Missing env " \o entry.val.rpcEnv], [error |-> RpcError]}
        \cup [gas_price_gwei : RankAmounts, priority_fee_gwei : RankAmounts \cup {null}]

RankInputs ==
    {<<[key |-> CHAINS[1].key, val |-> a], [key |-> CHAINS[2].key, val |-> b],
       [key |-> CHAINS[3].key, val |-> c]>> :
        a \in RankReadings(CHAINS[1]), b \in RankReadings(CHAINS[2]),
        c \in RankReadings(CHAINS[3])}

InitRank ==
    /\ InitBase
    /\ pc = "rank_input"
    /\ results \in RankInputs
    /\ feeRes = null
    /\ feeOut = null

Rank ==
    /\ pc = "rank_input"
    /\ best_chain' = chooseBestChain(results)
    /\ pc' = "ranked"
    /\ UNCHANGED <<run, env, timestamp, reportsDir, idx, results, providers, requests,
                   netClass, recommendation, report, files, writes, posts, console,
                   exitCode, feeRes, feeOut>>

SpecRank == InitRank /\ [][Rank]_vars

---------------------------------------------------------------------------
(* The priority fee estimate on every eth_feeHistory response within the bounds *)

InitFee ==
    /\ InitBase
    /\ pc = "fee_input"
    /\ results = <<>>
    /\ feeRes \in FeeResponses(MaxFeeBlocks, MaxFeeReward)
    /\ feeOut = null

EstimateFee ==
    /\ pc = "fee_input"
    /\ feeOut' = priorityFee(feeRes)
    /\ pc' = "fee_done"
    /\ UNCHANGED <<run, env, timestamp, reportsDir, idx, results, providers, requests,
                   netClass, best_chain, recommendation, report, files, writes, posts,
                   console, exitCode, feeRes>>

SpecFee == InitFee /\ [][EstimateFee]_vars

---------------------------------------------------------------------------
(* Properties *)

IsError(val) == "error" \in DOMAIN val

ErrorShape(val) == DOMAIN val = {"error"} /\ val.error # ""

Numeric(x) == x # null /\ x.int \in Nat /\ x.frac \in 0..(GweiDecimals - 1)

SuccessShape(val) ==
    /\ DOMAIN val = {"gas_price_gwei", "priority_fee_gwei"}
    /\ Numeric(val.gas_price_gwei)
    /\ (val.priority_fee_gwei = null \/ Numeric(val.priority_fee_gwei))

\* gas price plus priority fee, an absent priority fee counting as 0
Score(val) ==
    GweiAdd(val.gas_price_gwei,
            IF val.priority_fee_gwei = null THEN Zero ELSE val.priority_fee_gwei)

ExactKeys(chains) ==
    KeySet(chains) = ChainIds /\ Len(chains) = Cardinality(ChainIds)

\* C1: the chains map of every report built, and of every report file written, has
\* exactly the configured chain ids as its keys, whatever happened to each chain.
C1_ChainsKeysExact ==
    /\ report # null => ExactKeys(report.chains)
    /\ \A f \in files : ExactKeys(f.content.chains)

\* a finished run with one chain unconfigured, one whose gas price call failed and
\* one whose fee history failed
C1_Witness ==
    /\ pc = "done"
    /\ files # {}
    /\ Falsy(env["RPC_BASE"])
    /\ netClass["optimism"] = "gas_failed"
    /\ netClass["arbitrum"] = "fee_history_failed"

\* C2: chooseBestChain returns the first chain, in registry order, among the
\* non-error entries whose score is the minimum over the non-error entries, and
\* null exactly when every entry is an error.
C2_FirstMinimum ==
    pc = "ranked" =>
        LET ok == {i \in 1..Len(results) : ~IsError(results[i].val)}
        IN  /\ (best_chain = nullKey) <=> (ok = {})
            /\ ok # {} =>
                \E i \in ok :
                    /\ best_chain = results[i].key
                    /\ \A j \in ok : ~GweiLess(Score(results[j].val), Score(results[i].val))
                    /\ \A j \in ok :
                        j < i => GweiLess(Score(results[i].val), Score(results[j].val))

\* two chains tie on the score with different gas prices, the third is an error, and
\* the earlier of the two is chosen
C2_Witness ==
    /\ pc = "ranked"
    /\ IsError(results[3].val)
    /\ ~IsError(results[1].val) /\ ~IsError(results[2].val)
    /\ Score(results[1].val) = Score(results[2].val)
    /\ results[1].val.gas_price_gwei # results[2].val.gas_price_gwei
    /\ best_chain = results[1].key

\* C3: the recommendation names the best chain's display name from the registry and
\* urges its use now for lowest fees; without a best chain it states that no
\* recommendation could be made for lack of data.
C3_NamesDisplayName ==
    report # null =>
        report.recommendation =
            IF report.best_chain # nullKey
            THEN "Send your transactions on "
                    \o ValueOf(CHAINS, report.best_chain).name
                    \o " now for lowest fees."
            ELSE "No recommendation (insufficient data)."

\* C4: a chain whose RPC variable is unset or empty gets a reading with an error and
\* no numeric field, no provider and no request, and the loop goes on: each
\* iteration passed has recorded its chain.
C4_MissingEnv ==
    /\ pc = "loop" => Len(results) = idx - 1
    /\ \A i \in 1..Len(CHAINS) :
        (pc \in {"loop", "posting", "done", "crashed"} /\ i < idx
            /\ Falsy(env[CHAINS[i].val.rpcEnv])) =>
                /\ CHAINS[i].key \in KeySet(results)
                /\ ErrorShape(ValueOf(results, CHAINS[i].key))
                /\ CHAINS[i].key \notin providers
                /\ requests[CHAINS[i].key] = <<>>

\* the first chain's variable is empty, the second chain was fetched after it
C4_Witness ==
    /\ pc = "loop"
    /\ idx = 3
    /\ env["RPC_BASE"] = ""
    /\ IsError(ValueOf(results, "base"))
    /\ requests["optimism"] # <<>>

FeeHistoryFailed(c) ==
    netClass[c] \in {"block_number_failed", "fee_history_failed", "fee_history_unusable"}

\* C5: when the gas price call succeeded and the fee-history step failed (a throw of
\* getBlockNumber or eth_feeHistory, or no usable reward), the reading has a gas
\* price, a null priority fee and no error; the chain is ranked with priority fee 0;
\* and a loop iteration leaves the readings of the chains before it as they were.
C5_FeeHistoryShortfall ==
    /\ [](\A c \in ChainIds :
            FeeHistoryFailed(c) =>
                /\ c \in KeySet(results)
                /\ SuccessShape(ValueOf(results, c))
                /\ ValueOf(results, c).priority_fee_gwei = null
                /\ report # null =>
                    /\ report.best_chain # nullKey
                    /\ ~GweiLess(ValueOf(results, c).gas_price_gwei,
                                 Score(ValueOf(results, report.best_chain))))
    /\ [][(pc = "loop" /\ pc' = "loop" /\ run' = run) =>
            SubSeq(results', 1, Len(results)) = results]_vars

\* the fee history failed for the only chain that answered, and it is the best chain
C5_Witness ==
    /\ pc = "done"
    /\ netClass["base"] = "gas_failed"
    /\ netClass["optimism"] = "fee_history_unusable"
    /\ netClass["arbitrum"] = "none"
    /\ best_chain = "optimism"

\* C6: every reading is either a success (numeric gas price, no error) or an error
\* (a non-empty error string, neither gas price nor priority fee), never both; a
\* failed gas price call gives an error reading after that single request.
C6_ReadingShapes ==
    /\ \A i \in 1..Len(results) :
        /\ SuccessShape(results[i].val) \/ ErrorShape(results[i].val)
        /\ ~(SuccessShape(results[i].val) /\ ErrorShape(results[i].val))
    /\ \A c \in ChainIds :
        netClass[c] = "gas_failed" =>
            /\ ErrorShape(ValueOf(results, c))
            /\ requests[c] = <<"eth_gasPrice">>

\* the three kinds of reading in one run
C6_Witness ==
    /\ Len(results) = 3
    /\ Falsy(env["RPC_BASE"])
    /\ netClass["optimism"] = "gas_failed"
    /\ netClass["arbitrum"] = "fee_ok"

Wrote(rep) == [name |-> reportFilename(rep.timestamp), content |-> rep] \in files

\* C7: the report file is written before the webhook POST is attempted; a failed
\* POST leaves it in place with the same content, is reported as a warning, and the
\* run ends with exit status 0; only a failed write gives a non-zero status.
C7_WebhookBestEffort ==
    /\ pc = "posting" => writes = 1 /\ Wrote(report)
    /\ \A k \in 1..Len(posts) :
        /\ posts[k].payload = report
        /\ Wrote(report)
        /\ ~posts[k].delivered =>
            /\ pc = "done"
            /\ exitCode = <<0>>
            /\ \E m \in 1..Len(console) : console[m].level = "warn"
    /\ pc = "done" => exitCode = <<0>> /\ Wrote(report)
    /\ exitCode # <<>> => pc \in {"done", "crashed"}
    /\ exitCode = <<1>> => pc = "crashed" /\ writes = 0 /\ posts = <<>>

\* a run with a failed chain whose POST failed
C7_Witness ==
    /\ pc = "done"
    /\ netClass["base"] = "gas_failed"
    /\ Len(posts) = 1
    /\ ~posts[1].delivered

\* C8 as stated: a call of fetchGasData issues one or two requests.
C8_OneOrTwoRequests ==
    \A c \in ChainIds : netClass[c] # "none" => Len(requests[c]) \in 1..2

\* C8, amended: a call of fetchGasData issues eth_gasPrice, then eth_blockNumber if
\* the gas price came, then eth_feeHistory if the block number came (one to three
\* requests, none for a chain that is not fetched); and a loop iteration changes
\* nothing but the loop position, its own chain's reading, provider and requests.
C8_OneToThreeRequests ==
    /\ [](\A c \in ChainIds :
            /\ netClass[c] = "none" => requests[c] = <<>>
            /\ netClass[c] = "gas_failed" => requests[c] = <<"eth_gasPrice">>
            /\ netClass[c] = "block_number_failed" =>
                requests[c] = <<"eth_gasPrice", "eth_blockNumber">>
            /\ netClass[c] \in {"fee_history_failed", "fee_history_unusable", "fee_ok"} =>
                requests[c] = <<"eth_gasPrice", "eth_blockNumber", "eth_feeHistory">>)
    /\ [][(pc = "loop" /\ pc' = "loop" /\ run' = run) =>
            /\ UNCHANGED <<env, timestamp, reportsDir, best_chain, recommendation,
                           report, files, writes, posts, console, exitCode>>
            /\ SubSeq(results', 1, Len(results)) = results
            /\ \A c \in ChainIds \ {CHAINS[idx].key} :
                /\ requests'[c] = requests[c]
                /\ (c \in providers') <=> (c \in providers)]_vars

\* a chain whose three calls all succeeded
C8_Witness ==
    /\ netClass["base"] = "fee_ok"
    /\ Len(requests["base"]) = 3
    /\ ValueOf(results, "base").priority_fee_gwei # null

\* C9 as stated: every report file written stays, with its content.
C9_NeverOverwritten == [][\A f \in files : f \in files']_vars

\* C9, amended: a report file's name is derived from its report's timestamp; a run
\* writes at most one file, and exactly one, holding its report, once it is past the
\* write; and the files of reports with another timestamp than the current run's
\* stay, with their content.
C9_OtherTimestampsKept ==
    /\ [](/\ \A f \in files : f.name = reportFilename(f.content.timestamp)
          /\ \A f, g \in files : f.name = g.name => f = g
          /\ writes <= 1
          /\ pc \in {"posting", "done"} => writes = 1 /\ Wrote(report)
          /\ report # null => report.timestamp = timestamp)
    /\ [][\A f \in files : f.content.timestamp # timestamp' => f \in files']_vars

\* the second run has written its report half a second after the first, and both
\* files are there
C9_Witness ==
    /\ run = 2
    /\ pc = "done"
    /\ timestamp = toISOString(TickMs)
    /\ Cardinality(files) = 2
    /\ \E f \in files : f.content.timestamp = toISOString(0)

RECURSIVE SumOver(_, _)
SumOver(S, reward) ==
    IF S = {} THEN 0
    ELSE LET i == CHOOSE x \in S : TRUE
         IN  reward[i].array[1] + SumOver(S \ {i}, reward)

\* C10: the priority fee estimate is the sum of the usable first-percentile rewards
\* divided, rounding down, by their number (not by the block count); a missing
\* entry counts in neither, a zero reward counts, and without any usable entry the
\* estimate is null.
C10_MeanOfUsable ==
    pc = "fee_done" =>
        LET reward == IF feeRes # null /\ "reward" \in DOMAIN feeRes
                      THEN feeRes.reward ELSE <<>>
            usable == {i \in 1..Len(reward) : Usable(reward[i])}
        IN  IF usable = {}
            THEN feeOut = null
            ELSE LET mean == SumOver(usable, reward) \div Cardinality(usable)
                 IN  feeOut = [int |-> mean \div GweiDecimals,
                               frac |-> mean % GweiDecimals]

\* a response with a missing entry, a zero reward and a mean that is rounded down
C10_Witness ==
    /\ pc = "fee_done"
    /\ feeRes # null /\ "reward" \in DOMAIN feeRes
    /\ \E i \in 1..Len(feeRes.reward) : feeRes.reward[i] = null
    /\ \E i \in 1..Len(feeRes.reward) : feeRes.reward[i] = [array |-> <<0>>]
    /\ LET usable == {i \in 1..Len(feeRes.reward) : Usable(feeRes.reward[i])}
       IN  /\ usable # {}
           /\ SumOver(usable, feeRes.reward) % Cardinality(usable) # 0
    /\ feeOut # null

=============================================================================
